---- MODULE Spec2Model ----
(***************************************************************************)
(* Transaction verification of ckb (verification/src/transaction_verifier  *)
(* .rs): the leaf verifiers, the since (RFC 0017) verifier with its        *)
(* median-time LRU cache, and the two orchestrators.                       *)
(*                                                                         *)
(* A u64 is a tuple of four 16-bit limbs, most significant first, so a     *)
(* source literal 0x6000_0000_0000_0000 reads <<24576, 0, 0, 0>> and all   *)
(* arithmetic keeps its 64-bit width.                                      *)
(***************************************************************************)
EXTENDS Integers, Sequences, FiniteSets, TLC

VARIABLES rtx, ctx, overflow_checks, verifier, pc, calls, cache, queries,
          wrapped, ret, history

vars == <<rtx, ctx, overflow_checks, verifier, pc, calls, cache, queries,
          wrapped, ret, history>>

(***************************************************************************)
(* Bounds of the model.                                                    *)
(***************************************************************************)
MaxInputs == 2

MaxOutputs == 2

MaxDeps == 2

MaxCalls == 2

(***************************************************************************)
(* u64 arithmetic on limbs.                                                *)
(***************************************************************************)
Limb == 2 ^ 16

U64(n) == <<0, 0, 0, n>>

Zero == U64(0)

\* a < b on u64
Lt(a, b) ==
    \/ a[1] < b[1]
    \/ a[1] = b[1] /\ a[2] < b[2]
    \/ a[1] = b[1] /\ a[2] = b[2] /\ a[3] < b[3]
    \/ a[1] = b[1] /\ a[2] = b[2] /\ a[3] = b[3] /\ a[4] < b[4]

\* a + b on u64: the wrapped sum and whether the true sum left 64 bits
Add(a, b) ==
    LET s4 == a[4] + b[4]
        s3 == a[3] + b[3] + s4 \div Limb
        s2 == a[2] + b[2] + s3 \div Limb
        s1 == a[1] + b[1] + s2 \div Limb
    IN  [val |-> <<s1 % Limb, s2 % Limb, s3 % Limb, s4 % Limb>>,
         ovf |-> s1 \div Limb > 0]

\* a * k on u64, k a small multiplier: wrapped product and overflow
Mul(a, k) ==
    LET p4 == a[4] * k
        p3 == a[3] * k + p4 \div Limb
        p2 == a[2] * k + p3 \div Limb
        p1 == a[1] * k + p2 \div Limb
    IN  [val |-> <<p1 % Limb, p2 % Limb, p3 % Limb, p4 % Limb>>,
         ovf |-> p1 \div Limb > 0]

\* u64::saturating_sub(1)
SaturatingSub1(a) ==
    IF a[4] > 0 THEN <<a[1], a[2], a[3], a[4] - 1>>
    ELSE IF a[3] > 0 THEN <<a[1], a[2], a[3] - 1, Limb - 1>>
    ELSE IF a[2] > 0 THEN <<a[1], a[2] - 1, Limb - 1, Limb - 1>>
    ELSE IF a[1] > 0 THEN <<a[1] - 1, Limb - 1, Limb - 1, Limb - 1>>
    ELSE Zero

RECURSIVE BitAnd(_, _, _)
\* bitwise and of two naturals below 2^bits
BitAnd(x, y, bits) ==
    IF bits = 0 \/ x = 0 \/ y = 0 THEN 0
    ELSE (x % 2) * (y % 2) + 2 * BitAnd(x \div 2, y \div 2, bits - 1)

\* a & b on u64
And(a, b) == [i \in 1..4 |-> BitAnd(a[i], b[i], 16)]

(***************************************************************************)
(* Option and Result values.                                               *)
(***************************************************************************)
None == <<>>

Some(v) == <<v>>

IsSome(o) == o /= <<>>

\* Option::unwrap_or_else(|| 0) on an Option<u64>
UnwrapOrZero(o) == IF IsSome(o) THEN o[1] ELSE Zero

Ok(cycles) == [kind |-> "Ok", err |-> "", inner |-> "", cycles |-> cycles]

Err(e) == [kind |-> "Err", err |-> e, inner |-> "", cycles |-> 0]

\* a panic of the thread: expect() on None, or an arithmetic overflow in a
\* build with overflow checks
Panic == [kind |-> "Panic", err |-> "", inner |-> "", cycles |-> 0]

(***************************************************************************)
(* Since: the 64-bit lock of RFC 0017.                                     *)
(***************************************************************************)
LOCK_TYPE_FLAG == <<32768, 0, 0, 0>>

METRIC_TYPE_FLAG_MASK == <<24576, 0, 0, 0>>

VALUE_MASK == <<255, 65535, 65535, 65535>>

REMAIN_FLAGS_BITS == <<7936, 0, 0, 0>>

is_absolute(since) == And(since, LOCK_TYPE_FLAG) = Zero

is_relative(since) == ~is_absolute(since)

\* flags_is_valid without the test of the reserved bits
flags_is_valid_metric_only(since) ==
    And(since, METRIC_TYPE_FLAG_MASK) /= <<24576, 0, 0, 0>>

flags_is_valid(since) ==
    /\ And(since, REMAIN_FLAGS_BITS) = Zero
    /\ And(since, METRIC_TYPE_FLAG_MASK) /= <<24576, 0, 0, 0>>

\* Some(metric) as <<[metric, value, ovf]>>, None as <<>>; ovf says that
\* value * 1000 left 64 bits (value is then the wrapped product)
extract_metric(since) ==
    LET value == And(since, VALUE_MASK)
        flag == And(since, METRIC_TYPE_FLAG_MASK)
    IN  IF flag = <<0, 0, 0, 0>>
          THEN Some([metric |-> "BlockNumber", value |-> value, ovf |-> FALSE])
        ELSE IF flag = <<8192, 0, 0, 0>>
          THEN Some([metric |-> "EpochNumber", value |-> value, ovf |-> FALSE])
        ELSE IF flag = <<16384, 0, 0, 0>>
          THEN Some([metric |-> "Timestamp", value |-> Mul(value, 1000).val,
                     ovf |-> Mul(value, 1000).ovf])
        ELSE None

(***************************************************************************)
(* The resolved transaction and the context, as the verifiers read them.   *)
(***************************************************************************)
TX_VERSION == 0

\* ResolvedOutPoint::cell(): Some(cell meta) of a committed out point, None
\* of an unresolved one
cell(resolved_out_point) == resolved_out_point.cell

\* Transaction::is_empty()
is_empty(transaction) == transaction.inputs = <<>> \/ transaction.outputs = <<>>

\* BlockMedianTimeContext::block_median_time(n) of the context: a pure
\* oracle, None where it has no answer
OracleMedianTime(n) ==
    IF n \in DOMAIN ctx.oracle THEN ctx.oracle[n] ELSE None

\* TransactionScriptsVerifier::verify(max_cycles): the engine's cycle count
\* when the scripts pass within max_cycles, its error otherwise
ScriptEngine(max_cycles) ==
    IF ctx.script.fails THEN Err("ValidationFailure")
    ELSE IF ctx.script.cycles > max_cycles THEN Err("ExceededMaximumCycles")
    ELSE Ok(ctx.script.cycles)

\* From<occupied_capacity::Error> for TransactionError, applied by the ?
\* on a failed Capacity::safe_add
SafeAddError == Err("CapacityOverflow")

(***************************************************************************)
(* The median-time cache: an LruCache of capacity |resolved_inputs|, kept  *)
(* as the sequence of its entries, least recently inserted first.  m is    *)
(* the mutable part of a SinceVerifier during a call: the cache, the log   *)
(* of oracle queries, and whether a u64 operation has wrapped.             *)
(***************************************************************************)
CacheCapacity == Len(rtx.resolved_inputs)

\* LruCache::get(&self): the cached value, without touching the order
CacheGet(c, n) ==
    IF \E i \in 1..Len(c) : c[i].key = n
      THEN Some((CHOOSE e \in {c[i] : i \in 1..Len(c)} : e.key = n).val)
      ELSE None

\* LruCache::insert of a key that is not cached: the entry goes to the
\* back, and the front one is dropped when the capacity is exceeded
CacheInsert(c, n, timestamp) ==
    LET d == Append(c, [key |-> n, val |-> timestamp])
    IN  IF Len(d) > CacheCapacity THEN Tail(d) ELSE d

\* block_median_time taking a cached Some(timestamp) for no answer
block_median_time_hit_none(m, n) ==
    LET result == CacheGet(m.cache, n)
    IN  IF IsSome(result)
          THEN [ts |-> None, m |-> m]
          ELSE LET timestamp == OracleMedianTime(n)
               IN  [ts |-> timestamp,
                    m |-> [m EXCEPT !.cache = CacheInsert(m.cache, n, timestamp),
                                    !.queries = Append(m.queries, n)]]

block_median_time(m, n) ==
    LET result == CacheGet(m.cache, n)
    IN  IF IsSome(result)
          THEN [ts |-> result[1], m |-> m]
          ELSE LET timestamp == OracleMedianTime(n)
               IN  [ts |-> timestamp,
                    m |-> [m EXCEPT !.cache = CacheInsert(m.cache, n, timestamp),
                                    !.queries = Append(m.queries, n)]]

\* a + b as the build computes it: a panic with overflow checks, the
\* wrapped sum without
CheckedOrWrapped(sum, m) ==
    [panic |-> sum.ovf /\ overflow_checks,
     val |-> sum.val,
     m |-> [m EXCEPT !.wrapped = m.wrapped \/ sum.ovf]]

verify_absolute_lock(since, m) ==
    IF is_absolute(since)
      THEN LET em == extract_metric(since)
           IN  IF ~IsSome(em) THEN [res |-> Err("InvalidSince"), m |-> m]
               ELSE IF em[1].metric = "BlockNumber"
                 THEN [res |-> IF Lt(ctx.tip_number, em[1].value)
                                 THEN Err("Immature") ELSE Ok(0),
                       m |-> m]
               ELSE IF em[1].metric = "EpochNumber"
                 THEN [res |-> IF Lt(ctx.tip_epoch_number, em[1].value)
                                 THEN Err("Immature") ELSE Ok(0),
                       m |-> m]
               ELSE IF em[1].ovf /\ overflow_checks
                 THEN [res |-> Panic, m |-> m]
               ELSE LET tip == block_median_time(
                                   [m EXCEPT !.wrapped = m.wrapped \/ em[1].ovf],
                                   SaturatingSub1(ctx.tip_number))
                        tip_timestamp == UnwrapOrZero(tip.ts)
                    IN  [res |-> IF Lt(tip_timestamp, em[1].value)
                                   THEN Err("Immature") ELSE Ok(0),
                         m |-> tip.m]
      ELSE [res |-> Ok(0), m |-> m]

\* the match on the metric in verify_relative_lock, for a cell produced in
\* block cell_block_number of epoch cell_epoch_number
RelativeMetric(since, cell_block_number, cell_epoch_number, m) ==
    LET em == extract_metric(since)
    IN  IF ~IsSome(em) THEN [res |-> Err("InvalidSince"), m |-> m]
        ELSE IF em[1].metric = "BlockNumber"
          THEN LET s == CheckedOrWrapped(
                            Add(cell_block_number, em[1].value), m)
               IN  [res |-> IF s.panic THEN Panic
                            ELSE IF Lt(ctx.tip_number, s.val)
                              THEN Err("Immature") ELSE Ok(0),
                    m |-> s.m]
        ELSE IF em[1].metric = "EpochNumber"
          THEN LET s == CheckedOrWrapped(
                            Add(cell_epoch_number, em[1].value), m)
               IN  [res |-> IF s.panic THEN Panic
                            ELSE IF Lt(ctx.tip_epoch_number, s.val)
                              THEN Err("Immature") ELSE Ok(0),
                    m |-> s.m]
        ELSE IF em[1].ovf /\ overflow_checks
          THEN [res |-> Panic, m |-> m]
        ELSE LET tip == block_median_time(
                            [m EXCEPT !.wrapped = m.wrapped \/ em[1].ovf],
                            SaturatingSub1(ctx.tip_number))
                 tip_timestamp == UnwrapOrZero(tip.ts)
                 median == block_median_time(
                               tip.m, SaturatingSub1(cell_block_number))
                 median_timestamp == UnwrapOrZero(median.ts)
                 s == CheckedOrWrapped(
                          Add(median_timestamp, em[1].value), median.m)
             IN  [res |-> IF s.panic THEN Panic
                          ELSE IF Lt(tip_timestamp, s.val)
                            THEN Err("Immature") ELSE Ok(0),
                  m |-> s.m]

\* verify_relative_lock taking a cell without block info for one produced
\* in block 0 of epoch 0
verify_relative_lock_default_info(since, cell_meta, m) ==
    IF is_relative(since)
      THEN IF ~IsSome(cell_meta.block_info)
             THEN RelativeMetric(since, Zero, Zero, m)
             ELSE RelativeMetric(since, cell_meta.block_info[1].number,
                                 cell_meta.block_info[1].epoch, m)
      ELSE [res |-> Ok(0), m |-> m]

verify_relative_lock(since, cell_meta, m) ==
    IF is_relative(since)
      THEN IF ~IsSome(cell_meta.block_info)
             THEN [res |-> Err("Immature"), m |-> m]
             ELSE RelativeMetric(since, cell_meta.block_info[1].number,
                                 cell_meta.block_info[1].epoch, m)
      ELSE [res |-> Ok(0), m |-> m]

RECURSIVE SinceLoopZeroRejected(_, _)
\* SinceLoop returning an error at a zero since in place of skipping it
SinceLoopZeroRejected(i, m) ==
    IF i > Len(rtx.resolved_inputs) \/ i > Len(rtx.transaction.inputs)
      THEN [res |-> Ok(0), at |-> 0, m |-> m]
    ELSE
    LET resolved_out_point == rtx.resolved_inputs[i]
        since == rtx.transaction.inputs[i].since
    IN  IF ~IsSome(cell(resolved_out_point)) THEN SinceLoopZeroRejected(i + 1, m)
        ELSE IF since = Zero \/ ~flags_is_valid(since)
          THEN [res |-> Err("InvalidSince"), at |-> i, m |-> m]
        ELSE
        LET a == verify_absolute_lock(since, m)
        IN  IF a.res.kind /= "Ok" THEN [res |-> a.res, at |-> i, m |-> a.m]
            ELSE
            LET r == verify_relative_lock(
                         since, cell(resolved_out_point)[1], a.m)
            IN  IF r.res.kind /= "Ok"
                  THEN [res |-> r.res, at |-> i, m |-> r.m]
                  ELSE SinceLoopZeroRejected(i + 1, r.m)

RECURSIVE SinceLoop(_, _)
\* the loop of SinceVerifier::verify from the i-th zipped pair on; at is the
\* index of the input the loop returned at, 0 when it ran to its end
SinceLoop(i, m) ==
    IF i > Len(rtx.resolved_inputs) \/ i > Len(rtx.transaction.inputs)
      THEN [res |-> Ok(0), at |-> 0, m |-> m]
    ELSE
    LET resolved_out_point == rtx.resolved_inputs[i]
        since == rtx.transaction.inputs[i].since
    IN  IF ~IsSome(cell(resolved_out_point)) THEN SinceLoop(i + 1, m)
        ELSE IF since = Zero THEN SinceLoop(i + 1, m)
        ELSE IF ~flags_is_valid(since)
          THEN [res |-> Err("InvalidSince"), at |-> i, m |-> m]
        ELSE
        LET a == verify_absolute_lock(since, m)
        IN  IF a.res.kind /= "Ok" THEN [res |-> a.res, at |-> i, m |-> a.m]
            ELSE
            LET r == verify_relative_lock(
                         since, cell(resolved_out_point)[1], a.m)
            IN  IF r.res.kind /= "Ok"
                  THEN [res |-> r.res, at |-> i, m |-> r.m]
                  ELSE SinceLoop(i + 1, r.m)

SinceVerifier_verify(m) == SinceLoop(1, m)

(***************************************************************************)
(* The leaf verifiers.                                                     *)
(***************************************************************************)
VersionVerifier_verify ==
    IF rtx.transaction.version /= TX_VERSION THEN Err("Version") ELSE Ok(0)

EmptyVerifier_verify ==
    IF is_empty(rtx.transaction) THEN Err("Empty") ELSE Ok(0)

\* iter().filter_map(ResolvedOutPoint::cell): the cell metas of the
\* committed out points, in order
RECURSIVE Cells(_)
Cells(resolved) ==
    IF resolved = <<>> THEN <<>>
    ELSE (IF IsSome(cell(Head(resolved))) THEN cell(Head(resolved)) ELSE <<>>)
         \o Cells(Tail(resolved))

RECURSIVE AnyCellbaseImmature(_, _)
\* any(cellbase_immature) from the i-th cell meta on: "true", "false", or
\* "panic" when the closure panics before any cell answers true
AnyCellbaseImmature(metas, i) ==
    IF i > Len(metas) THEN "false"
    ELSE IF ~metas[i].is_cellbase THEN AnyCellbaseImmature(metas, i + 1)
    ELSE IF ~IsSome(metas[i].block_info) THEN "panic"
    ELSE LET sum == Add(metas[i].block_info[1].number, ctx.cellbase_maturity)
         IN  IF sum.ovf /\ overflow_checks THEN "panic"
             ELSE IF Lt(ctx.tip_number, sum.val) THEN "true"
             ELSE AnyCellbaseImmature(metas, i + 1)

\* MaturityVerifier_verify looking at the resolved inputs only
MaturityVerifierInputsOnly ==
    LET input_immature_spend == AnyCellbaseImmature(Cells(rtx.resolved_inputs), 1)
    IN  IF input_immature_spend = "panic" THEN Panic
        ELSE IF input_immature_spend = "true" THEN Err("CellbaseImmaturity")
        ELSE Ok(0)

MaturityVerifier_verify ==
    LET input_immature_spend == AnyCellbaseImmature(Cells(rtx.resolved_inputs), 1)
        dep_immature_spend == AnyCellbaseImmature(Cells(rtx.resolved_deps), 1)
    IN  IF input_immature_spend = "panic" THEN Panic
        ELSE IF input_immature_spend = "true" THEN Err("CellbaseImmaturity")
        ELSE IF dep_immature_spend = "panic" THEN Panic
        ELSE IF dep_immature_spend = "true" THEN Err("CellbaseImmaturity")
        ELSE Ok(0)

RECURSIVE AllInserted(_, _)
\* deps.iter().all(|id| seen.insert(id))
AllInserted(deps, seen) ==
    IF deps = <<>> THEN TRUE
    ELSE IF Head(deps) \in seen THEN FALSE
    ELSE AllInserted(Tail(deps), seen \cup {Head(deps)})

DuplicateDepsVerifier_verify ==
    IF AllInserted(rtx.transaction.deps, {}) THEN Ok(0) ELSE Err("DuplicateDeps")

RECURSIVE TryFoldSafeAdd(_, _)
\* iter().try_fold(Capacity::zero(), |acc, c| acc.safe_add(c)): Some(total),
\* or None at the first addition that overflows
TryFoldSafeAdd(acc, capacities) ==
    IF capacities = <<>> THEN Some(acc)
    ELSE LET sum == Add(acc, Head(capacities))
         IN  IF sum.ovf THEN None ELSE TryFoldSafeAdd(sum.val, Tail(capacities))

\* the capacity a resolved input adds: its cell's, zero when unresolved
InputCapacity(resolved_out_point) ==
    IF IsSome(cell(resolved_out_point))
      THEN cell(resolved_out_point)[1].capacity ELSE Zero

\* CapacityVerifier_verify comparing with <= in place of <
CapacityVerifierLessOrEqual ==
    LET exempt == rtx.transaction.is_cellbase
                    \/ rtx.transaction.is_withdrawing_from_dao
        inputs_total == TryFoldSafeAdd(Zero,
            [i \in 1..Len(rtx.resolved_inputs) |->
                InputCapacity(rtx.resolved_inputs[i])])
        outputs_total == TryFoldSafeAdd(Zero,
            [i \in 1..Len(rtx.transaction.outputs) |->
                rtx.transaction.outputs[i].capacity])
    IN  IF ~exempt /\ ~IsSome(inputs_total) THEN SafeAddError
        ELSE IF ~exempt /\ ~IsSome(outputs_total) THEN SafeAddError
        ELSE IF ~exempt /\ ~Lt(outputs_total[1], inputs_total[1])
          THEN Err("OutputsSumOverflow")
        ELSE IF \E i \in 1..Len(rtx.transaction.outputs) :
                   rtx.transaction.outputs[i].is_occupied_capacity_overflow
          THEN Err("CapacityOverflow")
        ELSE Ok(0)

\* CapacityVerifier_verify with the occupied-capacity check inside the
\* block the exemption skips
CapacityVerifierExemptSkipsAll ==
    LET exempt == rtx.transaction.is_cellbase
                    \/ rtx.transaction.is_withdrawing_from_dao
        inputs_total == TryFoldSafeAdd(Zero,
            [i \in 1..Len(rtx.resolved_inputs) |->
                InputCapacity(rtx.resolved_inputs[i])])
        outputs_total == TryFoldSafeAdd(Zero,
            [i \in 1..Len(rtx.transaction.outputs) |->
                rtx.transaction.outputs[i].capacity])
    IN  IF exempt THEN Ok(0)
        ELSE IF ~IsSome(inputs_total) THEN SafeAddError
        ELSE IF ~IsSome(outputs_total) THEN SafeAddError
        ELSE IF Lt(inputs_total[1], outputs_total[1])
          THEN Err("OutputsSumOverflow")
        ELSE IF \E i \in 1..Len(rtx.transaction.outputs) :
                   rtx.transaction.outputs[i].is_occupied_capacity_overflow
          THEN Err("CapacityOverflow")
        ELSE Ok(0)

CapacityVerifier_verify ==
    LET exempt == rtx.transaction.is_cellbase
                    \/ rtx.transaction.is_withdrawing_from_dao
        inputs_total == TryFoldSafeAdd(Zero,
            [i \in 1..Len(rtx.resolved_inputs) |->
                InputCapacity(rtx.resolved_inputs[i])])
        outputs_total == TryFoldSafeAdd(Zero,
            [i \in 1..Len(rtx.transaction.outputs) |->
                rtx.transaction.outputs[i].capacity])
    IN  IF ~exempt /\ ~IsSome(inputs_total) THEN SafeAddError
        ELSE IF ~exempt /\ ~IsSome(outputs_total) THEN SafeAddError
        ELSE IF ~exempt /\ Lt(inputs_total[1], outputs_total[1])
          THEN Err("OutputsSumOverflow")
        ELSE IF \E i \in 1..Len(rtx.transaction.outputs) :
                   rtx.transaction.outputs[i].is_occupied_capacity_overflow
          THEN Err("CapacityOverflow")
        ELSE Ok(0)

ScriptVerifier_verify(max_cycles) ==
    LET r == ScriptEngine(max_cycles)
    IN  IF r.kind = "Err" THEN [Err("ScriptFailure") EXCEPT !.inner = r.err]
        ELSE r

(***************************************************************************)
(* The orchestrators: the checks each verify() runs, in its order.  A leaf *)
(* verifier constructed on its own runs its one check.                     *)
(***************************************************************************)
\* Order with the capacity check moved before the maturity check
OrderCapacityFirst(v) ==
    IF v = "TransactionVerifier"
      THEN <<"version", "empty", "capacity", "maturity", "duplicate_deps",
             "since", "script">>
    ELSE IF v = "ContextualTransactionVerifier" THEN <<"maturity", "since">>
    ELSE IF v = "MaturityVerifier" THEN <<"maturity">>
    ELSE IF v = "CapacityVerifier" THEN <<"capacity">>
    ELSE <<"since">>

Order(v) ==
    IF v = "TransactionVerifier"
      THEN <<"version", "empty", "maturity", "capacity", "duplicate_deps",
             "since", "script">>
    ELSE IF v = "ContextualTransactionVerifier" THEN <<"maturity", "since">>
    ELSE IF v = "MaturityVerifier" THEN <<"maturity">>
    ELSE IF v = "CapacityVerifier" THEN <<"capacity">>
    ELSE <<"since">>

\* the position of check in the verifier's order
Position(check) ==
    CHOOSE i \in 1..Len(Order(verifier)) : Order(verifier)[i] = check

\* what follows a check that returned r: the ? operator returns an error
\* at once, a panic ends the thread, the last check's value is verify's
Proceed(check, r, at) ==
    /\ ret' = [check |-> check, res |-> r, at |-> at]
    /\ IF r.kind = "Panic"
         THEN pc' = "panicked" /\ history' = Append(history, r)
       ELSE IF r.kind = "Err" \/ Position(check) = Len(Order(verifier))
         THEN pc' = "idle" /\ history' = Append(history, r)
       ELSE pc' = Order(verifier)[Position(check) + 1] /\ history' = history
    /\ UNCHANGED <<rtx, ctx, overflow_checks, verifier, calls>>

\* a caller invokes verify() on the verifier
Call ==
    /\ pc = "idle"
    /\ calls < MaxCalls
    /\ calls' = calls + 1
    /\ pc' = Order(verifier)[1]
    /\ UNCHANGED <<rtx, ctx, overflow_checks, verifier, cache, queries,
                   wrapped, ret, history>>

VersionVerify ==
    /\ pc = "version"
    /\ Proceed("version", VersionVerifier_verify, 0)
    /\ UNCHANGED <<cache, queries, wrapped>>

EmptyVerify ==
    /\ pc = "empty"
    /\ Proceed("empty", EmptyVerifier_verify, 0)
    /\ UNCHANGED <<cache, queries, wrapped>>

MaturityVerify ==
    /\ pc = "maturity"
    /\ Proceed("maturity", MaturityVerifier_verify, 0)
    /\ UNCHANGED <<cache, queries, wrapped>>

CapacityVerify ==
    /\ pc = "capacity"
    /\ Proceed("capacity", CapacityVerifier_verify, 0)
    /\ UNCHANGED <<cache, queries, wrapped>>

DuplicateDepsVerify ==
    /\ pc = "duplicate_deps"
    /\ Proceed("duplicate_deps", DuplicateDepsVerifier_verify, 0)
    /\ UNCHANGED <<cache, queries, wrapped>>

SinceVerify ==
    /\ pc = "since"
    /\ \E r \in {SinceVerifier_verify(
                    [cache |-> cache, queries |-> queries, wrapped |-> FALSE])} :
           /\ Proceed("since", r.res, r.at)
           /\ cache' = r.m.cache
           /\ queries' = r.m.queries
           /\ wrapped' = r.m.wrapped

ScriptVerify ==
    /\ pc = "script"
    /\ Proceed("script", ScriptVerifier_verify(ctx.max_cycles), 0)
    /\ UNCHANGED <<cache, queries, wrapped>>

Next ==
    \/ Call
    \/ VersionVerify
    \/ EmptyVerify
    \/ MaturityVerify
    \/ CapacityVerify
    \/ DuplicateDepsVerify
    \/ SinceVerify
    \/ ScriptVerify

(***************************************************************************)
(* Initial states: a verifier constructed over a resolved transaction and  *)
(* a context.  Each specification draws the transaction and the context   *)
(* from the values that exercise one group of checks.                      *)
(***************************************************************************)
SeqsUpTo(S, n) == UNION {[1..k -> S] : k \in 0..n}

BlockInfo(number, epoch) == Some([number |-> U64(number), epoch |-> U64(epoch)])

CellMeta(capacity, is_cellbase, block_info) ==
    [cell |-> Some([capacity |-> capacity, is_cellbase |-> is_cellbase,
                    block_info |-> block_info])]

Unresolved == [cell |-> None]

\* an input of the transaction with the out point it resolves to
Input(since, resolved_out_point) ==
    [since |-> since, resolved |-> resolved_out_point]

Output(capacity, overflow) ==
    [capacity |-> capacity, is_occupied_capacity_overflow |-> overflow]

\* a dep of the transaction with the out point it resolves to
Dep(id, resolved_out_point) == [id |-> id, resolved |-> resolved_out_point]

ResolvedTransaction(version, ins, outs, ds, is_cellbase, dao) ==
    [transaction |->
        [version |-> version,
         inputs |-> [i \in 1..Len(ins) |-> [since |-> ins[i].since]],
         outputs |-> outs,
         deps |-> [i \in 1..Len(ds) |-> ds[i].id],
         is_cellbase |-> is_cellbase,
         is_withdrawing_from_dao |-> dao],
     resolved_inputs |-> [i \in 1..Len(ins) |-> ins[i].resolved],
     resolved_deps |-> [i \in 1..Len(ds) |-> ds[i].resolved]]

Context(tip, oracle, script, max_cycles) ==
    [tip_number |-> U64(tip.number), tip_epoch_number |-> U64(tip.epoch),
     cellbase_maturity |-> U64(3), oracle |-> oracle, script |-> script,
     max_cycles |-> max_cycles]

\* the tips: block 99 in epoch 5, block 100 in epoch 6
Tips == {[number |-> 99, epoch |-> 5], [number |-> 100, epoch |-> 6]}

QueriedBlocks == {U64(49), U64(98), U64(99)}

NoMedianTime == [n \in QueriedBlocks |-> None]

\* median times in milliseconds
MedianTime ==
    [n \in QueriedBlocks |->
        IF n = U64(49) THEN Some(U64(0))
        ELSE IF n = U64(98) THEN Some(U64(999))
        ELSE Some(U64(1000))]

ScriptPasses == [fails |-> FALSE, cycles |-> 7]

ScriptFails == [fails |-> TRUE, cycles |-> 0]

PlainCell == CellMeta(U64(1000), FALSE, BlockInfo(2, 1))

InitWith(rtxs, ctxs, verifiers, builds) ==
    /\ rtx \in rtxs
    /\ ctx \in ctxs
    /\ verifier \in verifiers
    /\ overflow_checks \in builds
    /\ pc = "idle"
    /\ calls = 0
    /\ cache = <<>>
    /\ queries = <<>>
    /\ wrapped = FALSE
    /\ ret = [check |-> "", res |-> Ok(0), at |-> 0]
    /\ history = <<>>

\* --- every check of the orchestrators passing and failing ---------------
OrderInputs ==
    {Input(Zero, PlainCell),
     Input(U64(100), PlainCell),
     Input(Zero, CellMeta(U64(1000), TRUE, BlockInfo(97, 1)))}

OrderOutputs == {Output(U64(900), FALSE), Output(U64(2100), TRUE)}

OrderDeps == {Dep("d", PlainCell)}

OrderRtxs ==
    {ResolvedTransaction(v, ins, outs, ds, FALSE, FALSE) :
        v \in {TX_VERSION, TX_VERSION + 1},
        ins \in SeqsUpTo(OrderInputs, MaxInputs),
        outs \in SeqsUpTo(OrderOutputs, MaxOutputs),
        ds \in SeqsUpTo(OrderDeps, MaxDeps)}

OrderCtxs ==
    {Context(tip, NoMedianTime, ScriptPasses, 10) : tip \in Tips}
    \cup {Context(tip, NoMedianTime, ScriptPasses, 5) : tip \in Tips}
    \cup {Context(tip, NoMedianTime, ScriptFails, 10) : tip \in Tips}

Init ==
    InitWith(OrderRtxs, OrderCtxs,
             {"TransactionVerifier", "ContextualTransactionVerifier"}, {TRUE})

Spec == Init /\ [][Next]_vars

\* --- capacities: equal, short and overflowing sums, the exemptions ------
\* 2^63: two of them overflow a u64 sum
HalfRange == <<32768, 0, 0, 0>>

Capacities == {U64(500), U64(600), HalfRange}

CapacityInputs ==
    {Input(Zero, CellMeta(c, FALSE, BlockInfo(2, 1))) : c \in Capacities}
    \cup {Input(Zero, Unresolved)}

CapacityOutputs ==
    {Output(c, FALSE) : c \in Capacities} \cup {Output(U64(500), TRUE)}

CapacityRtxs ==
    {ResolvedTransaction(TX_VERSION, ins, outs, <<>>, e[1], e[2]) :
        ins \in SeqsUpTo(CapacityInputs, MaxInputs),
        outs \in SeqsUpTo(CapacityOutputs, MaxOutputs),
        e \in {<<FALSE, FALSE>>, <<TRUE, FALSE>>, <<FALSE, TRUE>>}}

CapacityCtxs ==
    {Context([number |-> 100, epoch |-> 6], NoMedianTime, ScriptPasses, 10)}

InitCapacity ==
    InitWith(CapacityRtxs, CapacityCtxs,
             {"TransactionVerifier", "CapacityVerifier"}, {TRUE})

SpecCapacity == InitCapacity /\ [][Next]_vars

\* --- cellbase maturity: cellbase cells at blocks 50 and 97 (maturity 3), -
\* --- cells without block info, unresolved out points ---------------------
MaturityCells ==
    {PlainCell,
     CellMeta(U64(1000), FALSE, None),
     CellMeta(U64(1000), TRUE, BlockInfo(97, 1)),
     CellMeta(U64(1000), TRUE, BlockInfo(50, 1)),
     CellMeta(U64(1000), TRUE, None),
     Unresolved}

MaturityDepCells ==
    {CellMeta(U64(1000), TRUE, BlockInfo(97, 1)),
     CellMeta(U64(1000), TRUE, None),
     Unresolved}

DepIds == <<"d1", "d2", "d3", "d4">>

MaturityRtxs ==
    {ResolvedTransaction(TX_VERSION,
                         [i \in 1..Len(cs) |-> Input(Zero, cs[i])],
                         <<Output(U64(0), FALSE)>>,
                         [i \in 1..Len(ds) |-> Dep(DepIds[i], ds[i])],
                         FALSE, FALSE) :
        cs \in SeqsUpTo(MaturityCells, MaxInputs),
        ds \in SeqsUpTo(MaturityDepCells, MaxDeps)}

MaturityCtxs ==
    {Context(tip, NoMedianTime, ScriptPasses, 10) : tip \in Tips}

InitMaturity ==
    InitWith(MaturityRtxs, MaturityCtxs,
             {"TransactionVerifier", "ContextualTransactionVerifier",
              "MaturityVerifier"}, {TRUE})

SpecMaturity == InitMaturity /\ [][Next]_vars

\* --- since: every lock type and metric, invalid flags, a timestamp ------
\* --- whose milliseconds leave 64 bits, producers with and without block --
\* --- info, on both builds -------------------------------------------------
\* 0x0000_0000_0000_0064: absolute, block number 100
AbsBlock100 == <<0, 0, 0, 100>>

\* 0x2000_0000_0000_0006: absolute, epoch 6
AbsEpoch6 == <<8192, 0, 0, 6>>

\* 0x4000_0000_0000_0001: absolute, timestamp 1 s
AbsTime1 == <<16384, 0, 0, 1>>

\* 0x4041_8937_4bc6_a7f0: absolute, timestamp 18446744073709552 s, whose
\* milliseconds are 2^64 + 384
AbsTimeHuge == <<16449, 35127, 19398, 42992>>

\* 0x8000_0000_0000_0032: relative, block number 50
RelBlock50 == <<32768, 0, 0, 50>>

\* 0xa000_0000_0000_0005: relative, epoch 5
RelEpoch5 == <<40960, 0, 0, 5>>

\* 0xc000_0000_0000_0001: relative, timestamp 1 s
RelTime1 == <<49152, 0, 0, 1>>

\* 0x0100_0000_0000_0000: a reserved flag set
ReservedFlag == <<256, 0, 0, 0>>

\* 0x6000_0000_0000_0001: metric type 11
MetricEleven == <<24576, 0, 0, 1>>

\* 0xe000_0000_0000_0001: relative, metric type 11
RelMetricEleven == <<57344, 0, 0, 1>>

\* a cell produced in block 50, epoch 1
Cell50 == CellMeta(U64(1000), FALSE, BlockInfo(50, 1))

\* a cell whose producer is still in the pool
PoolCell == CellMeta(U64(1000), FALSE, None)

SinceInputs ==
    {Input(Zero, PlainCell),
     Input(AbsBlock100, PlainCell),
     Input(AbsEpoch6, PlainCell),
     Input(AbsTime1, PlainCell),
     Input(AbsTimeHuge, PlainCell),
     Input(AbsBlock100, PoolCell),
     Input(RelBlock50, Cell50),
     Input(RelEpoch5, Cell50),
     Input(RelEpoch5, PoolCell),
     Input(RelTime1, Cell50),
     Input(ReservedFlag, PlainCell),
     Input(ReservedFlag, Unresolved),
     Input(MetricEleven, PlainCell),
     Input(RelMetricEleven, PoolCell)}

SinceRtxs ==
    {ResolvedTransaction(TX_VERSION, ins, <<Output(U64(0), FALSE)>>, <<>>,
                         FALSE, FALSE) :
        ins \in SeqsUpTo(SinceInputs, MaxInputs)}

SinceCtxs ==
    {Context(tip, oracle, ScriptPasses, 10) :
        tip \in Tips, oracle \in {NoMedianTime, MedianTime}}

InitSince ==
    InitWith(SinceRtxs, SinceCtxs,
             {"TransactionVerifier", "ContextualTransactionVerifier",
              "SinceVerifier"}, BOOLEAN)

SpecSince == InitSince /\ [][Next]_vars

(***************************************************************************)
(* The claims.                                                             *)
(***************************************************************************)
Last(h) == h[Len(h)]

\* the since check's verdict on a verifier whose cache is empty
SinceVerdict ==
    SinceVerifier_verify([cache |-> <<>>, queries |-> <<>>, wrapped |-> FALSE]).res

\* the first result of the sequence that is not Ok, the last one otherwise
RECURSIVE EarliestFailure(_)
EarliestFailure(results) ==
    IF Len(results) = 1 \/ Head(results).kind /= "Ok" THEN Head(results)
    ELSE EarliestFailure(Tail(results))

DocumentedFull ==
    <<VersionVerifier_verify, EmptyVerifier_verify, MaturityVerifier_verify,
      CapacityVerifier_verify, DuplicateDepsVerifier_verify, SinceVerdict,
      ScriptVerifier_verify(ctx.max_cycles)>>

DocumentedContextual == <<MaturityVerifier_verify, SinceVerdict>>

\* C1: whenever a call of TransactionVerifier::verify has returned, its
\* result is that of the earliest check, in the order version, empty,
\* maturity, capacity, duplicate-deps, since, script, that does not pass
\* (the script's cycle count when all seven pass); a call of
\* ContextualTransactionVerifier::verify returns that of the earliest of
\* maturity, since.
C1_FirstFailureWins ==
    (pc \in {"idle", "panicked"} /\ history /= <<>>) =>
        /\ verifier = "TransactionVerifier"
             => Last(history) = EarliestFailure(DocumentedFull)
        /\ verifier = "ContextualTransactionVerifier"
             => Last(history) = EarliestFailure(DocumentedContextual)

\* a full verify that returned the maturity error of a transaction whose
\* capacity, duplicate-deps and script checks would fail as well
C1_Witness ==
    /\ verifier = "TransactionVerifier"
    /\ pc = "idle"
    /\ history /= <<>>
    /\ Last(history) = Err("CellbaseImmaturity")
    /\ CapacityVerifier_verify.kind = "Err"
    /\ DuplicateDepsVerifier_verify.kind = "Err"
    /\ ScriptVerifier_verify(ctx.max_cycles).kind = "Err"

\* the sum of a sequence of capacities, from its end: the sum modulo
\* 2^64 and whether the true sum leaves 64 bits
RECURSIVE Total(_)
Total(capacities) ==
    IF capacities = <<>> THEN [val |-> Zero, ovf |-> FALSE]
    ELSE LET rest == Total(Tail(capacities))
             sum == Add(Head(capacities), rest.val)
         IN  [val |-> sum.val, ovf |-> rest.ovf \/ sum.ovf]

\* the capacities of the committed resolved inputs
CommittedInputCapacities ==
    LET committed == SelectSeq(rtx.resolved_inputs, LAMBDA r : r.cell /= <<>>)
    IN  [i \in 1..Len(committed) |-> committed[i].cell[1].capacity]

OutputCapacities ==
    [i \in 1..Len(rtx.transaction.outputs) |-> rtx.transaction.outputs[i].capacity]

Exempt == rtx.transaction.is_cellbase \/ rtx.transaction.is_withdrawing_from_dao

SumsFit == ~Total(CommittedInputCapacities).ovf /\ ~Total(OutputCapacities).ovf

InputsShort ==
    Lt(Total(CommittedInputCapacities).val, Total(OutputCapacities).val)

SomeOutputOverflows ==
    \E i \in 1..Len(rtx.transaction.outputs) :
        rtx.transaction.outputs[i].is_occupied_capacity_overflow

\* C2: whenever the capacity check has just returned for a transaction
\* that is neither cellbase nor withdrawing from DAO and whose input and
\* output capacity sums fit 64 bits, it returned OutputsSumOverflow if and
\* only if the committed inputs' capacities sum to strictly less than the
\* outputs' capacities.
C2_CapacityConservation ==
    (ret.check = "capacity" /\ ~Exempt /\ SumsFit) =>
        (ret.res = Err("OutputsSumOverflow") <=> InputsShort)

\* a capacity check that returned OutputsSumOverflow for a transaction
\* with an unresolved input beside a committed one
C2_Witness ==
    /\ ret.check = "capacity"
    /\ ~Exempt
    /\ SumsFit
    /\ ret.res = Err("OutputsSumOverflow")
    /\ \E i \in 1..Len(rtx.resolved_inputs) : rtx.resolved_inputs[i].cell = <<>>
    /\ \E i \in 1..Len(rtx.resolved_inputs) : rtx.resolved_inputs[i].cell /= <<>>

\* C3 as stated: whenever the capacity check has just returned, it
\* returned CapacityOverflow if and only if some output reports
\* is_occupied_capacity_overflow.
C3_OverflowIffOutputOverflows ==
    ret.check = "capacity" =>
        (ret.res = Err("CapacityOverflow") <=> SomeOutputOverflows)

\* C3 as amended: whenever the capacity check has just returned and the
\* comparison of the sums did not end it (the transaction is exempt, or
\* both sums fit 64 bits and the inputs' is not less than the outputs'),
\* it returned CapacityOverflow if and only if some output reports
\* is_occupied_capacity_overflow, and Ok otherwise.
C3_OverflowAfterSumCheck ==
    (ret.check = "capacity" /\ (Exempt \/ (SumsFit /\ ~InputsShort))) =>
        /\ ret.res = Err("CapacityOverflow") <=> SomeOutputOverflows
        /\ ~SomeOutputOverflows => ret.res = Ok(0)

\* a capacity check that returned CapacityOverflow for an exempt
\* transaction whose outputs exceed its inputs
C3_Witness ==
    /\ ret.check = "capacity"
    /\ Exempt
    /\ SumsFit
    /\ InputsShort
    /\ ret.res = Err("CapacityOverflow")

\* the fields of a since, read off its most significant limb: bits 60-56,
\* bits 62-61, bit 63
RemainFlags(since) == (since[1] \div 256) % 32

MetricType(since) == (since[1] \div 8192) % 4

RelativeBit(since) == since[1] \div 32768

InvalidFlags(since) == RemainFlags(since) /= 0 \/ MetricType(since) = 3

InputIndices == 1..Len(rtx.transaction.inputs)

SinceOf(i) == rtx.transaction.inputs[i].since

Committed(i) == rtx.resolved_inputs[i].cell /= <<>>

\* C4 as stated: the oracle is never asked twice for the same block number
\* over the (at most two) verify calls on one verifier.
C4_OneQueryPerBlock ==
    \A i, j \in 1..Len(queries) : i /= j => queries[i] /= queries[j]

\* C5 as stated: whenever the since check has just returned for a
\* transaction with an input whose since has a reserved bit set or metric
\* type 11, it returned InvalidSince.
C5_InvalidFlagsRejected ==
    (ret.check = "since" /\ \E i \in InputIndices : InvalidFlags(SinceOf(i)))
        => ret.res = Err("InvalidSince")

\* C5 as amended: whenever the since check has just returned for a
\* transaction with a committed input whose since has a reserved bit set
\* or metric type 11, it did not return Ok: it returned at that input or at
\* an earlier one, and with InvalidSince when at that input.
C5_CommittedInvalidFlagsRejected ==
    ret.check = "since" =>
        \A i \in InputIndices :
            (Committed(i) /\ InvalidFlags(SinceOf(i))) =>
                /\ ret.res.kind /= "Ok"
                /\ ret.at \in 1..i
                /\ ret.at = i => ret.res = Err("InvalidSince")

\* a since check that passed a first input with a matured lock and
\* returned InvalidSince at a second one with metric type 11
C5_Witness ==
    /\ ret.check = "since"
    /\ ret.at = 2
    /\ SinceOf(1) /= Zero
    /\ Committed(1)
    /\ MetricType(SinceOf(2)) = 3
    /\ RelativeBit(SinceOf(2)) = 1
    /\ ret.res = Err("InvalidSince")

\* C6 as stated: whenever the since check has just returned for sinces with
\* valid flags, a u64 computation that left 64 bits was reported as
\* InvalidSince, and the check did not panic on one (block numbers and
\* epochs are below 2^56 and no cell is cellbase in every state of
\* SpecSince).
C6_NoSilentOverflow ==
    (ret.check = "since" /\ \A i \in InputIndices : ~InvalidFlags(SinceOf(i)))
        => /\ wrapped => ret.res = Err("InvalidSince")
           /\ ret.res /= Panic

\* C7: no step changes the resolved transaction or the context, and a
\* verify call that returns after an earlier one on the same verifier
\* returns the same result.
C7_Idempotent ==
    [][/\ rtx' = rtx
       /\ ctx' = ctx
       /\ (history /= <<>> /\ history' /= history)
            => Last(history') = Last(history)]_vars

\* a second call that returned Ok as the first did, answered from the
\* cache: the oracle was asked once, and had a median time that decides
C7_Witness ==
    /\ Len(history) = 2
    /\ Len(queries) = 1
    /\ cache /= <<>>
    /\ cache[1].val /= <<>>
    /\ history[1] = history[2]
    /\ history[2].kind = "Ok"

\* C8: whenever the since check has just returned, it did not return at an
\* input whose since is 0, and it returned Ok, without a query of the
\* oracle during the call, if every committed input's since is 0.
C8_SinceZeroNoOp ==
    ret.check = "since" =>
        /\ ret.at /= 0 => SinceOf(ret.at) /= Zero
        /\ (\A i \in InputIndices : Committed(i) => SinceOf(i) = Zero)
             => ret.res = Ok(0) /\ cache = <<>>

\* a since check that went past a committed first input with since 0 and
\* failed at the second input
C8_Witness ==
    /\ ret.check = "since"
    /\ ret.at = 2
    /\ Committed(1)
    /\ SinceOf(1) = Zero
    /\ ret.res = Err("Immature")

\* the committed cell metas among the resolved inputs and deps
CommittedCells ==
    LET resolved ==
            {rtx.resolved_inputs[i] : i \in 1..Len(rtx.resolved_inputs)}
            \cup {rtx.resolved_deps[i] : i \in 1..Len(rtx.resolved_deps)}
    IN  {r.cell[1] : r \in {x \in resolved : x.cell /= <<>>}}

\* the number a u64 below 2^16 stands for
Small(n) == n[4]

\* a cellbase cell whose block plus the maturity is beyond the tip
ImmatureCellbase(meta) ==
    /\ meta.is_cellbase
    /\ meta.block_info /= <<>>
    /\ Small(ctx.tip_number)
         < Small(meta.block_info[1].number) + Small(ctx.cellbase_maturity)

\* a committed cellbase cell without block info, on which the check panics
CellbaseWithoutBlockInfo(meta) == meta.is_cellbase /\ meta.block_info = <<>>

\* C9: whenever the maturity check has just returned, it returned
\* CellbaseImmaturity only if some committed cell among the resolved inputs
\* and deps is cellbase with tip_number < block_info.number +
\* cellbase_maturity; and when every committed cellbase cell has its block
\* info, it returned CellbaseImmaturity if there is such a cell and Ok if
\* there is none.
C9_CellbaseMaturity ==
    ret.check = "maturity" =>
        /\ ret.res = Err("CellbaseImmaturity")
             => \E meta \in CommittedCells : ImmatureCellbase(meta)
        /\ (\A meta \in CommittedCells : ~CellbaseWithoutBlockInfo(meta))
             => IF \E meta \in CommittedCells : ImmatureCellbase(meta)
                  THEN ret.res = Err("CellbaseImmaturity")
                  ELSE ret.res = Ok(0)

\* a maturity check that returned CellbaseImmaturity for a dep, the inputs
\* being an unresolved one and a mature cellbase cell
C9_Witness ==
    /\ ret.check = "maturity"
    /\ ret.res = Err("CellbaseImmaturity")
    /\ \E i \in 1..Len(rtx.resolved_inputs) : rtx.resolved_inputs[i].cell = <<>>
    /\ \E i \in 1..Len(rtx.resolved_inputs) :
          /\ rtx.resolved_inputs[i].cell /= <<>>
          /\ rtx.resolved_inputs[i].cell[1].is_cellbase
    /\ \A i \in 1..Len(rtx.resolved_inputs) :
          rtx.resolved_inputs[i].cell /= <<>>
            => ~ImmatureCellbase(rtx.resolved_inputs[i].cell[1])

\* a committed input with a non-zero, valid, relative since whose cell has
\* no block info
RelativeOnPoolCell(i) ==
    /\ Committed(i)
    /\ SinceOf(i) /= Zero
    /\ ~InvalidFlags(SinceOf(i))
    /\ RelativeBit(SinceOf(i)) = 1
    /\ rtx.resolved_inputs[i].cell[1].block_info = <<>>

\* C10: whenever the since check has just returned for a transaction with
\* a committed input whose since is non-zero, valid and relative and whose
\* cell has no block info, it returned at that input or at an earlier one,
\* and with Immature when at that input, whatever the tip and the oracle.
C10_RelativeLockOnPoolCell ==
    ret.check = "since" =>
        \A i \in InputIndices :
            RelativeOnPoolCell(i) =>
                /\ ret.at \in 1..i
                /\ ret.at = i => ret.res = Err("Immature")

\* a since check at tip epoch 6 that passed a first input and returned
\* Immature at a second one, relative by epochs on a cell without block info
C10_Witness ==
    /\ ret.check = "since"
    /\ ret.at = 2
    /\ RelativeOnPoolCell(2)
    /\ MetricType(SinceOf(2)) = 1
    /\ SinceOf(1) /= Zero
    /\ Committed(1)
    /\ ctx.tip_epoch_number = U64(6)
    /\ ret.res = Err("Immature")

\* the 56-bit value field of a since
ValueField(since) == <<since[1] % 256, since[2], since[3], since[4]>>

\* floor(t / 1000) for a 64-bit t, by long division over its limbs
DivBy1000(t) ==
    LET r1 == t[1] % 1000
        d2 == r1 * Limb + t[2]
        r2 == d2 % 1000
        d3 == r2 * Limb + t[3]
        r3 == d3 % 1000
        d4 == r3 * Limb + t[4]
    IN  <<t[1] \div 1000, d2 \div 1000, d3 \div 1000, d4 \div 1000>>

\* the median time the oracle gives for the block before the tip, 0 when
\* it gives none
TipMedianTime == UnwrapOrZero(OracleMedianTime(SaturatingSub1(ctx.tip_number)))

\* a committed input with a non-zero, valid, absolute since
AbsoluteLock(i) ==
    /\ Committed(i)
    /\ SinceOf(i) /= Zero
    /\ ~InvalidFlags(SinceOf(i))
    /\ RelativeBit(SinceOf(i)) = 0

\* the documented condition of immaturity of an absolute since, over the
\* integers: t < v * 1000 exactly when floor(t / 1000) < v
AbsoluteImmature(since) ==
    LET v == ValueField(since)
    IN  IF MetricType(since) = 0 THEN Lt(ctx.tip_number, v)
        ELSE IF MetricType(since) = 1 THEN Lt(ctx.tip_epoch_number, v)
        ELSE Lt(DivBy1000(TipMedianTime), v)

\* the milliseconds of a timestamp since do not fit 64 bits
MillisecondsOverflow(since) ==
    MetricType(since) = 2 /\ Lt(DivBy1000(<<65535, 65535, 65535, 65535>>),
                                ValueField(since))

\* C11 as stated: whenever the since check has just returned for a
\* transaction with a committed input whose since is non-zero, valid and
\* absolute, then, if tip_number < v (block number), tip_epoch_number < v
\* (epoch) or t < v * 1000 (timestamp), it returned at that input or at an
\* earlier one, and with Immature when at that input; otherwise it did not
\* return at that input, with or without block info on the cell.
C11_AbsoluteLock ==
    ret.check = "since" =>
        \A i \in InputIndices :
            AbsoluteLock(i) =>
                IF AbsoluteImmature(SinceOf(i))
                  THEN /\ ret.at \in 1..i
                       /\ ret.at = i => ret.res = Err("Immature")
                  ELSE ret.at /= i

\* C11 for the sinces whose milliseconds fit 64 bits: the same statement,
\* which the absolute lock meets on them.
AbsoluteLockWithoutOverflow ==
    ret.check = "since" =>
        \A i \in InputIndices :
            (AbsoluteLock(i) /\ ~MillisecondsOverflow(SinceOf(i))) =>
                IF AbsoluteImmature(SinceOf(i))
                  THEN /\ ret.at \in 1..i
                       /\ ret.at = i => ret.res = Err("Immature")
                  ELSE ret.at /= i

\* a since check at tip 100 that passed a first input locked until the
\* median time of 1000 ms, then one locked until block 100 on a cell
\* without block info
AbsoluteLockPasses ==
    /\ ret.check = "since"
    /\ ret.res = Ok(0)
    /\ Len(rtx.transaction.inputs) = 2
    /\ AbsoluteLock(1) /\ MetricType(SinceOf(1)) = 2
    /\ TipMedianTime = U64(1000)
    /\ AbsoluteLock(2) /\ MetricType(SinceOf(2)) = 0
    /\ rtx.resolved_inputs[2].cell[1].block_info = <<>>

\* a since check that returned Immature at an input locked until a median
\* time of 1000 ms, the block before the tip having 999 ms
AbsoluteLockImmature ==
    /\ ret.check = "since"
    /\ ret.at = 1
    /\ AbsoluteLock(1) /\ MetricType(SinceOf(1)) = 2
    /\ TipMedianTime = U64(999)
    /\ ret.res = Err("Immature")

====
